---- MODULE Spec2Model ----
(***************************************************************************)
(* Model of the document registry: the register-document and               *)
(* verify-document edge functions, the deferred confirmation callback      *)
(* that register-document schedules, and the three tables of the           *)
(* migration (documents, blockchain_records, verification_history).        *)
(*                                                                         *)
(* Every `await` on the store is an interleaving point: one action is the  *)
(* store operation together with the synchronous handler code that runs    *)
(* on its result, up to the next store operation or the response.          *)
(*                                                                         *)
(* The store is the one the handlers address through the client: the       *)
(* column constraints of the migration (UNIQUE, defaults) are modelled,    *)
(* and every operation is taken to reach the tables (no store outage, no   *)
(* row-level-security denial) in the specification Spec.                   *)
(* SpecFault adds store calls that resolve to an error, SpecRead the        *)
(* get-documents and export-proofs functions; the row-level-security        *)
(* policies are modelled for a client that reads the tables directly.       *)
(* Columns the handlers only copy (mime_type, tags, updated_at) are left   *)
(* out.                                                                    *)
(***************************************************************************)
EXTENDS Integers, Sequences, FiniteSets, TLC

\* ---------------------------------------------------------------- bounds
NumReq == 2          \* requests handled in one behaviour
MaxClock == 2        \* the clock (seconds) stops advancing here
NumTx == 2           \* distinct values the random transaction id can take
MaxSelect == 2       \* files chosen in one form in one behaviour

\* ------------------------------------------------------ program constants
MaxFileSize == 104857600   \* register-document/index.ts:68
HashLen == 64              \* register-document/index.ts:55 ({64})
DelaySec == 2              \* register-document/index.ts:154 (2000 ms)
DefaultLimit == 50         \* get-documents: parseInt(... || "50")

\* ----------------------------------------------------------------- values
Null == "null"       \* null / undefined of a text field
NullInt == -1        \* null of an integer column
NoId == 0            \* absent uuid

Reqs == 1..NumReq
DocIds == 1..NumReq
TxHashes == 1..NumTx

\* A hash is a text: the sequence of its runs, [c |-> code point, n |-> length],
\* n >= 1 and neighbouring runs of different code points, so that two texts are
\* equal exactly when their run sequences are.
Rep(c, n) == <<[c |-> c, n |-> n]>>

RECURSIVE StrLen(_)
\* String.length
StrLen(s) == IF s = <<>> THEN 0 ELSE s[1].n + StrLen(Tail(s))

EmptyStr == <<>>                             \* ""
Undefined == <<[c |-> -1, n |-> 0]>>         \* the member is absent
H1 == Rep(97, HashLen)                       \* "aaa...a", 64 characters
H2 == Rep(98, HashLen)                       \* "bbb...b", 64 characters
NotAHash ==                                  \* "not-a-hash"
  Rep(110, 1) \o Rep(111, 1) \o Rep(116, 1) \o Rep(45, 1) \o Rep(97, 1)
    \o Rep(45, 1) \o Rep(104, 1) \o Rep(97, 1) \o Rep(115, 1) \o Rep(104, 1)

ValidHashes == {H1, H2}
Hashes == ValidHashes \cup {EmptyStr, NotAHash}
VerifyHashes == ValidHashes \cup {EmptyStr, Undefined}
Filenames == {"", "a.pdf"}
FileSizes == {0, MaxFileSize, MaxFileSize + 1}
Uploaders == {"u1"}
Verifiers == {Null, "", "v1"}
StatusParams == {Null, "pending", "confirmed", "not_found", "archived"}
Limits == {1, DefaultLimit}
Offsets == {0, 1}
Formats == {"csv", "json"}

VARIABLES
  documents,             \* table documents, in insertion order
  blockchain_records,    \* table blockchain_records, in insertion order
  verification_history,  \* table verification_history, in insertion order
  req,                   \* the requests: payload, position, locals, response
  jobs,                  \* the setTimeout callbacks, by document id
  now,                   \* Date.now() / 1000
  form                   \* component state of DocumentUpload and DocumentVerify

vars ==
  <<documents, blockchain_records, verification_history, req, jobs, now, form>>

\* the files a user can choose: name, size and content (contents are numbered;
\* the third file is over the size limit of the forms)
Files ==
  { [name |-> "a.pdf", size |-> 1, content |-> 1],
    [name |-> "b.pdf", size |-> 2, content |-> 2],
    [name |-> "big.bin", size |-> MaxFileSize + 1, content |-> 3] }
FileNames == {f.name : f \in Files}
NoFile == [name |-> Null, size |-> 0, content |-> 0]     \* file === null

\* computeSHA256: 64 lower-case hexadecimal digits, different for different
\* contents (content 1 gives "aaa...a", content 2 "bbb...b")
computeSHA256(f) == Rep(96 + f.content, HashLen)

ZeroAddress == "0x0000000000000000000000000000000000000000"
NoPayload == [file_hash |-> <<>>]                        \* nothing sent yet

\* useState initial values of DocumentUpload; computing counts the
\* computeSHA256 promises not yet settled, by file, inflight is the pending
\* registerDocument call, timer the pending setTimeout of handleRegister
IdleUpload ==
  [file |-> NoFile, hash |-> EmptyStr, loading |-> FALSE, status |-> "idle",
   computing |-> [n \in FileNames |-> 0], inflight |-> FALSE, timer |-> FALSE,
   sent |-> NoPayload, selects |-> 0]

\* useState initial values of DocumentVerify
IdleVerify ==
  [file |-> NoFile, hash |-> EmptyStr, loading |-> FALSE,
   computing |-> [n \in FileNames |-> 0], sent |-> NoPayload, selects |-> 0]

InitForm == [upload |-> IdleUpload, verify |-> IdleVerify]

\* -------------------------------------------------------------- helpers
\* JavaScript truthiness of an optional string
Truthy(s) == s # Null /\ s # ""

\* !s of a text
Falsy(s) == StrLen(s) = 0

\* the characters of the class [0-9a-f]
HexClass == (48..57) \cup (97..102)

\* the canonical form the i flag compares characters in
Canonicalize(c) == IF c \in 97..122 THEN c - 32 ELSE c

IsHexChar_CaseSensitive(c) == c \in HexClass

\* [0-9a-f] under the i flag
IsHexChar(c) == \E k \in HexClass : Canonicalize(k) = Canonicalize(c)

\* /^[0-9a-f]{64}$/i.test(h)
IsSha256Hex(h) ==
  /\ StrLen(h) = HashLen
  /\ \A i \in 1..Len(h) : IsHexChar(h[i].c)

TooLarge_Inclusive(sz) == sz >= MaxFileSize

\* payload.file_size > 104857600
TooLarge(sz) == sz > MaxFileSize

ValidationError_SizeFirst(fn, h, sz) ==
  IF fn = "" \/ Falsy(h) \/ sz = 0 THEN "missing"
  ELSE IF TooLarge(sz) THEN "size"
  ELSE IF ~IsSha256Hex(h) THEN "format"
  ELSE "none"

\* the validation chain of Register: the first check that fails
ValidationError(fn, h, sz) ==
  IF fn = "" \/ Falsy(h) \/ sz = 0 THEN "missing"
  ELSE IF ~IsSha256Hex(h) THEN "format"
  ELSE IF TooLarge(sz) THEN "size"
  ELSE "none"

MissingHash_Never(h) == FALSE

\* !payload.file_hash of Verify
MissingHash(h) == Falsy(h)

\* .maybeSingle(): the row when exactly one matches, else no data
MaybeSingle(rows) == IF Len(rows) = 1 THEN rows ELSE <<>>

DocsByHash_All(h) == documents

\* documents .eq("file_hash", h): exact text equality
DocsByHash(h) == SelectSeq(documents, LAMBDA d : d.file_hash = h)

ExistingDoc_Blind(h) == <<>>

\* .from("documents").select(...).eq("file_hash", h).maybeSingle()
ExistingDoc(h) == MaybeSingle(DocsByHash(h))

\* blockchain_records .eq("document_id", id)
RecordsByDoc(id) == SelectSeq(blockchain_records, LAMBDA b : b.document_id = id)

FileHashUnique_Dropped(h) == TRUE

FileHashUnique_AnyRow(h) == documents = <<>>

\* file_hash text UNIQUE NOT NULL
FileHashUnique(h) == DocsByHash(h) = <<>>

\* .from("blockchain_records").select(...).eq("document_id", id).maybeSingle()
LedgerOf(id) == MaybeSingle(RecordsByDoc(id))

TxHashUnique_Dropped(id, tx) == TRUE

\* transaction_hash text UNIQUE: no other row holds tx
TxHashUnique(id, tx) ==
  \A i \in 1..Len(blockchain_records) :
     blockchain_records[i].document_id # id
        => blockchain_records[i].transaction_hash # tx

NoJob == [pc |-> "none", due |-> 0, runs |-> 0]

IdleReq ==
  [kind |-> "none", pc |-> "idle",
   filename |-> Null, file_hash |-> Undefined, file_size |-> 0,
   uploader_address |-> Null, verifier_address |-> Null,
   status |-> Null, limit |-> 0, offset |-> 0, format |-> Null,
   data_id |-> NoId, document |-> <<>>, blockchainRecord |-> <<>>,
   response |-> <<>>,
   startedAfter |-> FALSE, confirmedAtStart |-> FALSE, appended |-> 0,
   failed |-> FALSE]

\* the JSON body of a response; absent members are <<>> / Null / NoId
Response(code, success, status, error, docId, doc, chain) ==
  [code |-> code, success |-> success, status |-> status, error |-> error,
   document_id |-> docId, document |-> doc, blockchain |-> chain]

\* hashes for which a Register has answered 201
Registered ==
  {req[q].file_hash : q \in {r \in Reqs : req[r].kind = "register"
                                        /\ req[r].response # <<>>
                                        /\ req[r].response[1].code = 201}}

\* hashes whose ledger entry is confirmed
ConfirmedHashes ==
  {documents[i].file_hash : i \in {j \in 1..Len(documents) :
      \E k \in 1..Len(blockchain_records) :
         /\ blockchain_records[k].document_id = documents[j].id
         /\ blockchain_records[k].status = "confirmed"}}

Init ==
  /\ documents = <<>>
  /\ blockchain_records = <<>>
  /\ verification_history = <<>>
  /\ req = [p \in Reqs |-> IdleReq]
  /\ jobs = [d \in DocIds |-> NoJob]
  /\ now = 0
  /\ form = InitForm

\* ------------------------------------------------------------- requests
\* a request finishes with a response
Respond(p, r, extra) ==
  req' = [req EXCEPT ![p] = [extra EXCEPT !.pc = "done", !.response = <<r>>]]

\* requests are numbered in the order they arrive
StartOrder(p) == IF p = 1 THEN TRUE ELSE req[p - 1].kind # "none"

\* the two valid hashes are named in the order they first arrive
HashOrder(h) == h = H2 => \E q \in Reqs : req[q].file_hash = H1

\* ---------------------------------------------- register-document/index.ts
\* a Register request arrives with a payload drawn from the given sets;
\* payload validation
RegisterPayload(p, fns, hs, szs) ==
  /\ req[p].pc = "idle"
  /\ StartOrder(p)
  /\ \E fn \in fns, h \in {x \in hs : HashOrder(x)}, sz \in szs, u \in Uploaders :
       LET r0 == [req[p] EXCEPT !.kind = "register", !.filename = fn,
                     !.file_hash = h, !.file_size = sz,
                     !.uploader_address = u,
                     !.startedAfter = (h \in Registered),
                     !.confirmedAtStart = (h \in ConfirmedHashes)]
           err == ValidationError(fn, h, sz)
       IN  IF err # "none"
           THEN Respond(p, Response(400, FALSE, Null, err, NoId, <<>>, <<>>), r0)
           ELSE req' = [req EXCEPT ![p] = [r0 EXCEPT !.pc = "lookup"]]
  /\ UNCHANGED <<documents, blockchain_records, verification_history,
                 jobs, now, form>>

\* a Register request arrives
RegisterValidate(p) == RegisterPayload(p, Filenames, Hashes, FileSizes)

RegisterLookup_Upsert(p) ==
  /\ req[p].kind = "register" /\ req[p].pc = "lookup"
  /\ LET existingDoc == ExistingDoc(req[p].file_hash)
     IN  IF existingDoc # <<>>
         THEN /\ Respond(p, Response(409, FALSE, existingDoc[1].status, "conflict",
                                     existingDoc[1].id, <<>>, <<>>), req[p])
              /\ documents' =
                    [i \in 1..Len(documents) |->
                       IF documents[i].id = existingDoc[1].id
                       THEN [documents[i] EXCEPT !.filename = req[p].filename,
                                                 !.file_size = req[p].file_size,
                                                 !.status = "pending"]
                       ELSE documents[i]]
         ELSE /\ req' = [req EXCEPT ![p].pc = "insertDoc"]
              /\ UNCHANGED documents
  /\ UNCHANGED <<blockchain_records, verification_history, jobs, now, form>>

\* the duplicate lookup and the 409 answer
RegisterLookup(p) ==
  /\ req[p].kind = "register" /\ req[p].pc = "lookup"
  /\ LET existingDoc == ExistingDoc(req[p].file_hash)
     IN  IF existingDoc # <<>>
         THEN Respond(p, Response(409, FALSE, existingDoc[1].status, "conflict",
                                  existingDoc[1].id, <<>>, <<>>), req[p])
         ELSE req' = [req EXCEPT ![p].pc = "insertDoc"]
  /\ UNCHANGED <<documents, blockchain_records, verification_history,
                 jobs, now, form>>

\* the row register-document inserts into documents
NewDocument(id, r) ==
  [id |-> id, filename |-> r.filename, file_hash |-> r.file_hash,
   file_size |-> r.file_size, uploader_address |-> r.uploader_address,
   status |-> "pending", created_at |-> now]

\* insert into documents; a constraint violation is thrown and answered 500
RegisterInsertDocument(p) ==
  /\ req[p].kind = "register" /\ req[p].pc = "insertDoc"
  /\ IF FileHashUnique(req[p].file_hash)
     THEN LET id == Len(documents) + 1
          IN  /\ documents' = Append(documents, NewDocument(id, req[p]))
              /\ req' = [req EXCEPT ![p].pc = "insertLedger", ![p].data_id = id]
     ELSE /\ Respond(p, Response(500, FALSE, Null, "internal", NoId, <<>>, <<>>), req[p])
          /\ UNCHANGED documents
  /\ UNCHANGED <<blockchain_records, verification_history, jobs, now, form>>

NewLedgerEntry_Confirmed(r) ==
  [document_id |-> r.data_id, document_hash |-> r.file_hash,
   owner_address |-> r.uploader_address, transaction_hash |-> NullInt,
   block_number |-> NullInt, block_timestamp |-> NullInt,
   status |-> "confirmed"]

NewLedgerEntry_NoOwner(r) ==
  [document_id |-> r.data_id, document_hash |-> r.file_hash,
   owner_address |-> Null, transaction_hash |-> NullInt,
   block_number |-> NullInt, block_timestamp |-> NullInt,
   status |-> "pending"]

\* the row register-document inserts into blockchain_records
NewLedgerEntry(r) ==
  [document_id |-> r.data_id, document_hash |-> r.file_hash,
   owner_address |-> r.uploader_address, transaction_hash |-> NullInt,
   block_number |-> NullInt, block_timestamp |-> NullInt,
   status |-> "pending"]

\* insert into blockchain_records, setTimeout, the 201 answer
RegisterInsertLedger(p) ==
  /\ req[p].kind = "register" /\ req[p].pc = "insertLedger"
  /\ blockchain_records' = Append(blockchain_records, NewLedgerEntry(req[p]))
  /\ jobs' = [jobs EXCEPT ![req[p].data_id] =
                 [pc |-> "scheduled", due |-> now + DelaySec, runs |-> 0]]
  /\ Respond(p, Response(201, TRUE, Null, Null, req[p].data_id, <<>>, <<>>), req[p])
  /\ UNCHANGED <<documents, verification_history, now, form>>

\* ------------------------------------------- the setTimeout callback
ConfirmLedger_NoFilter(id, tx) ==
  [i \in 1..Len(blockchain_records) |->
     [blockchain_records[i] EXCEPT !.transaction_hash = tx,
        !.block_number = now, !.block_timestamp = now,
        !.status = "confirmed"]]

ConfirmLedger_NoStatus(id, tx) ==
  [i \in 1..Len(blockchain_records) |->
     IF blockchain_records[i].document_id = id
     THEN [blockchain_records[i] EXCEPT !.transaction_hash = tx,
             !.block_number = now, !.block_timestamp = now]
     ELSE blockchain_records[i]]

\* the update of blockchain_records .eq("document_id", id)
ConfirmLedger(id, tx) ==
  [i \in 1..Len(blockchain_records) |->
     IF blockchain_records[i].document_id = id
     THEN [blockchain_records[i] EXCEPT !.transaction_hash = tx,
             !.block_number = now, !.block_timestamp = now,
             !.status = "confirmed"]
     ELSE blockchain_records[i]]

\* the timer fires: random txHash out of txs, update of the ledger entry;
\* the result of the update is not looked at. The clock saturates at
\* MaxClock, which stands for every later time.
ConfirmStep(id, txs) ==
  /\ jobs[id].pc = "scheduled"
  /\ (now >= jobs[id].due \/ now = MaxClock)
  /\ \E tx \in txs :
       blockchain_records' =
          IF TxHashUnique(id, tx) THEN ConfirmLedger(id, tx)
                                  ELSE blockchain_records
  /\ jobs' = [jobs EXCEPT ![id].pc = "updateDoc"]
  /\ UNCHANGED <<documents, verification_history, req, now, form>>

\* the transaction ids some ledger entry holds
UsedTx ==
  {blockchain_records[k].transaction_hash : k \in 1..Len(blockchain_records)}
     \cap TxHashes

\* a transaction id no ledger entry holds; the random values are named in
\* the order they are first drawn
FreshTx ==
  {tx \in TxHashes \ UsedTx : \A t \in TxHashes \ UsedTx : tx <= t}

\* the callback with crypto.getRandomValues free to repeat a value
ConfirmUpdateLedger(id) == ConfirmStep(id, UsedTx \cup FreshTx)

\* the callback with the 256 random bits taken to be collision-free
ConfirmUpdateLedgerFresh(id) == ConfirmStep(id, FreshTx)

ConfirmDocument_NotFound(id) ==
  [i \in 1..Len(documents) |->
     IF documents[i].id = id
     THEN [documents[i] EXCEPT !.status = "not_found"]
     ELSE documents[i]]

\* the update of documents .eq("id", id)
ConfirmDocument(id) ==
  [i \in 1..Len(documents) |->
     IF documents[i].id = id
     THEN [documents[i] EXCEPT !.status = "confirmed"]
     ELSE documents[i]]

\* the callback's second store call
ConfirmUpdateDocument(id) ==
  /\ jobs[id].pc = "updateDoc"
  /\ documents' = ConfirmDocument(id)
  /\ jobs' = [jobs EXCEPT ![id].pc = "done", ![id].runs = @ + 1]
  /\ UNCHANGED <<blockchain_records, verification_history, req, now, form>>

\* the callback invoked a second time for a document it has confirmed
ConfirmRerun(id) ==
  /\ jobs[id].pc = "done" /\ jobs[id].runs = 1
  /\ jobs' = [jobs EXCEPT ![id].pc = "scheduled", ![id].due = now]
  /\ UNCHANGED <<documents, blockchain_records, verification_history,
                 req, now, form>>

\* ------------------------------------------------ verify-document/index.ts
\* a Verify request arrives with a payload drawn from the given sets;
\* file_hash is required
VerifyPayload(p, hs, vs) ==
  /\ req[p].pc = "idle"
  /\ StartOrder(p)
  /\ \E h \in {x \in hs : HashOrder(x)}, v \in vs :
       LET r0 == [req[p] EXCEPT !.kind = "verify", !.file_hash = h,
                     !.verifier_address = v,
                     !.startedAfter = (h \in Registered),
                     !.confirmedAtStart = (h \in ConfirmedHashes)]
       IN  IF MissingHash(h)
           THEN Respond(p, Response(400, FALSE, "not_found", "required", NoId, <<>>, <<>>), r0)
           ELSE req' = [req EXCEPT ![p] = [r0 EXCEPT !.pc = "lookupDoc"]]
  /\ UNCHANGED <<documents, blockchain_records, verification_history,
                 jobs, now, form>>

\* a Verify request arrives
VerifyValidate(p) == VerifyPayload(p, VerifyHashes, Verifiers)

ShouldAudit_Always(v) == TRUE

\* if (payload.verifier_address)
ShouldAudit(v) == Truthy(v)

\* the `document` member of a Verify response
DocumentPayload(d) ==
  <<[id |-> d.id, filename |-> d.filename, file_size |-> d.file_size]>>

\* the `blockchain` member of a Verify response
BlockchainPayload(b) ==
  <<[transaction_hash |-> b.transaction_hash, block_number |-> b.block_number,
     owner_address |-> b.owner_address, block_timestamp |-> b.block_timestamp,
     status |-> b.status]>>

NotFoundResponse ==
  Response(200, TRUE, "not_found", Null, NoId, <<>>, <<>>)

\* the lookup of the document by hash
VerifyLookupDocument(p) ==
  /\ req[p].kind = "verify" /\ req[p].pc = "lookupDoc"
  /\ LET document == ExistingDoc(req[p].file_hash)
     IN  IF document = <<>>
         THEN IF ShouldAudit(req[p].verifier_address)
              THEN req' = [req EXCEPT ![p].pc = "insertNotFound"]
              ELSE Respond(p, NotFoundResponse, req[p])
         ELSE req' = [req EXCEPT ![p].pc = "lookupLedger",
                                 ![p].document = document]
  /\ UNCHANGED <<documents, blockchain_records, verification_history,
                 jobs, now, form>>

NotFoundRecord_Outcome(r) ==
  [document_id |-> NoId, verified_hash |-> r.file_hash, status |-> "verified",
   verifier_address |-> r.verifier_address,
   transaction_hash |-> NullInt, block_number |-> NullInt]

\* the verification_history row of a hash that is not registered
NotFoundRecord(r) ==
  [document_id |-> NoId, verified_hash |-> r.file_hash, status |-> "not_found",
   verifier_address |-> r.verifier_address,
   transaction_hash |-> NullInt, block_number |-> NullInt]

VerifyInsertNotFound_KeepLatest(p) ==
  /\ req[p].kind = "verify" /\ req[p].pc = "insertNotFound"
  /\ verification_history' =
        Append(SelectSeq(verification_history,
                         LAMBDA r : r.verifier_address # req[p].verifier_address),
               NotFoundRecord(req[p]))
  /\ Respond(p, NotFoundResponse, [req[p] EXCEPT !.appended = @ + 1])
  /\ UNCHANGED <<documents, blockchain_records, jobs, now, form>>

\* insert of the not_found record and the answer
VerifyInsertNotFound(p) ==
  /\ req[p].kind = "verify" /\ req[p].pc = "insertNotFound"
  /\ verification_history' = Append(verification_history, NotFoundRecord(req[p]))
  /\ Respond(p, NotFoundResponse, [req[p] EXCEPT !.appended = @ + 1])
  /\ UNCHANGED <<documents, blockchain_records, jobs, now, form>>

VerificationStatus_NoCompare(document, h) == "verified"

VerificationStatus_Flipped(document, h) ==
  IF document.file_hash = h THEN "tampered" ELSE "verified"

\* hashMatch ? "verified" : "tampered"
VerificationStatus(document, h) ==
  IF document.file_hash = h THEN "verified" ELSE "tampered"

\* the answer for a document with a ledger entry
OutcomeResponse(r, b) ==
  Response(200, TRUE, VerificationStatus(r.document[1], r.file_hash), Null,
           NoId, DocumentPayload(r.document[1]), BlockchainPayload(b))

\* the lookup of the ledger entry of the document
VerifyLookupLedger(p) ==
  /\ req[p].kind = "verify" /\ req[p].pc = "lookupLedger"
  /\ LET blockchainRecord == LedgerOf(req[p].document[1].id)
         r1 == [req[p] EXCEPT !.blockchainRecord = blockchainRecord]
     IN  IF blockchainRecord = <<>>
         THEN Respond(p, Response(200, TRUE, "not_found", Null, NoId,
                                  DocumentPayload(req[p].document[1]), <<>>), r1)
         ELSE IF ShouldAudit(req[p].verifier_address)
              THEN req' = [req EXCEPT ![p] = [r1 EXCEPT !.pc = "insertHistory"]]
              ELSE Respond(p, OutcomeResponse(r1, blockchainRecord[1]), r1)
  /\ UNCHANGED <<documents, blockchain_records, verification_history,
                 jobs, now, form>>

OutcomeRecord_NoDetail(r) ==
  [document_id |-> r.document[1].id, verified_hash |-> r.file_hash,
   status |-> VerificationStatus(r.document[1], r.file_hash),
   verifier_address |-> r.verifier_address,
   transaction_hash |-> NullInt, block_number |-> NullInt]

\* the verification_history row of a verified / tampered outcome
OutcomeRecord(r) ==
  [document_id |-> r.document[1].id, verified_hash |-> r.file_hash,
   status |-> VerificationStatus(r.document[1], r.file_hash),
   verifier_address |-> r.verifier_address,
   transaction_hash |-> r.blockchainRecord[1].transaction_hash,
   block_number |-> r.blockchainRecord[1].block_number]

VerifyInsertHistory_Promote(p) ==
  /\ req[p].kind = "verify" /\ req[p].pc = "insertHistory"
  /\ verification_history' = Append(verification_history, OutcomeRecord(req[p]))
  /\ documents' = ConfirmDocument(req[p].document[1].id)
  /\ Respond(p, OutcomeResponse(req[p], req[p].blockchainRecord[1]),
             [req[p] EXCEPT !.appended = @ + 1])
  /\ UNCHANGED <<blockchain_records, jobs, now, form>>

\* insert of the outcome record and the answer
VerifyInsertHistory(p) ==
  /\ req[p].kind = "verify" /\ req[p].pc = "insertHistory"
  /\ verification_history' = Append(verification_history, OutcomeRecord(req[p]))
  /\ Respond(p, OutcomeResponse(req[p], req[p].blockchainRecord[1]),
             [req[p] EXCEPT !.appended = @ + 1])
  /\ UNCHANGED <<documents, blockchain_records, jobs, now, form>>

\* ------------------------------------------------------------------ time
\* the clock is observed only through the timers and the stamps taken while
\* requests run, so it advances while a callback is scheduled
Tick ==
  /\ now < MaxClock
  /\ \E id \in DocIds : jobs[id].pc = "scheduled"
  /\ now' = now + 1
  /\ UNCHANGED <<documents, blockchain_records, verification_history,
                 req, jobs, form>>

Next ==
  \/ \E p \in Reqs : RegisterValidate(p)
  \/ \E p \in Reqs : RegisterLookup(p)
  \/ \E p \in Reqs : RegisterInsertDocument(p)
  \/ \E p \in Reqs : RegisterInsertLedger(p)
  \/ \E id \in DocIds : ConfirmUpdateLedger(id)
  \/ \E id \in DocIds : ConfirmUpdateDocument(id)
  \/ \E p \in Reqs : VerifyValidate(p)
  \/ \E p \in Reqs : VerifyLookupDocument(p)
  \/ \E p \in Reqs : VerifyInsertNotFound(p)
  \/ \E p \in Reqs : VerifyLookupLedger(p)
  \/ \E p \in Reqs : VerifyInsertHistory(p)
  \/ Tick

Spec == Init /\ [][Next]_vars

\* ------------------------------------------- registration and confirmation
\* Register requests that pass validation and their callbacks, the random
\* transaction ids taken collision-free; the timers fire and the store calls
\* of a callback complete
RegisterValid(p) == RegisterPayload(p, {"a.pdf"}, ValidHashes, {MaxFileSize})

NextLive ==
  \/ \E p \in Reqs : RegisterValid(p)
  \/ \E p \in Reqs : RegisterLookup(p)
  \/ \E p \in Reqs : RegisterInsertDocument(p)
  \/ \E p \in Reqs : RegisterInsertLedger(p)
  \/ \E id \in DocIds : ConfirmUpdateLedgerFresh(id)
  \/ \E id \in DocIds : ConfirmUpdateDocument(id)
  \/ Tick

SpecLive ==
  /\ Init /\ [][NextLive]_vars
  /\ WF_vars(Tick)
  /\ \A id \in DocIds : /\ WF_vars(ConfirmUpdateLedgerFresh(id))
                         /\ WF_vars(ConfirmUpdateDocument(id))

\* Register requests and callbacks that may be invoked a second time
NextRerun ==
  \/ \E p \in Reqs : RegisterValid(p)
  \/ \E p \in Reqs : RegisterLookup(p)
  \/ \E p \in Reqs : RegisterInsertDocument(p)
  \/ \E p \in Reqs : RegisterInsertLedger(p)
  \/ \E id \in DocIds : ConfirmUpdateLedger(id)
  \/ \E id \in DocIds : ConfirmUpdateDocument(id)
  \/ \E id \in DocIds : ConfirmRerun(id)
  \/ Tick

SpecRerun == Init /\ [][NextRerun]_vars

\* ------------------------------------------------- the hash format check
\* code points around the ends of 0-9, A-F and a-f, and "-"
ProbeChars == {45, 47, 48, 57, 58, 64, 65, 70, 71, 96, 97, 102, 103}
ProbeLens == {HashLen - 1, HashLen, HashLen + 1}

\* texts of one run or two runs, of 63, 64 and 65 characters
ProbeHashes ==
  {Rep(c, n) : c \in ProbeChars, n \in ProbeLens}
  \cup UNION {{Rep(c1, k) \o Rep(c2, n - k) : k \in {1, HashLen \div 2}} :
                <<c1, c2, n>> \in {t \in ProbeChars \X ProbeChars \X ProbeLens :
                                     t[1] # t[2]}}
  \cup {EmptyStr, NotAHash}

\* one Register request whose hash is any of the probe texts
RegisterProbe == RegisterPayload(1, {"a.pdf"}, ProbeHashes, {1, MaxFileSize})

NextFormat == RegisterProbe

SpecFormat == Init /\ [][NextFormat]_vars

\* ------------------------------------------------- the classification
H1Upper == Rep(65, HashLen)                  \* "AAA...A", 64 characters
StoredHashes == ValidHashes \cup {H1Upper}

\* a Verify request that holds a document row and is about to read the
\* row's confirmed ledger entry; stored and submitted hash are independent,
\* which covers the pairs a lookup by hash does not produce
InitClassify ==
  \E stored \in StoredHashes, submitted \in StoredHashes, v \in Verifiers,
     tx \in TxHashes, t \in 0..MaxClock :
    LET doc == [id |-> 1, filename |-> "a.pdf", file_hash |-> stored,
                file_size |-> MaxFileSize, uploader_address |-> "u1",
                status |-> "confirmed", created_at |-> 0]
    IN  /\ documents = <<doc>>
        /\ blockchain_records =
              <<[document_id |-> 1, document_hash |-> stored,
                 owner_address |-> "u1", transaction_hash |-> tx,
                 block_number |-> t, block_timestamp |-> t,
                 status |-> "confirmed"]>>
        /\ verification_history = <<>>
        /\ req = [p \in Reqs |->
                    IF p = 1
                    THEN [IdleReq EXCEPT !.kind = "verify", !.pc = "lookupLedger",
                            !.file_hash = submitted, !.verifier_address = v,
                            !.document = <<doc>>]
                    ELSE IdleReq]
        /\ jobs = [d \in DocIds |->
                     IF d = 1 THEN [pc |-> "done", due |-> 0, runs |-> 1]
                              ELSE NoJob]
        /\ now = t
        /\ form = InitForm

NextClassify ==
  \/ VerifyLookupLedger(1)
  \/ VerifyInsertHistory(1)

SpecClassify == InitClassify /\ [][NextClassify]_vars

\* ------------------------------------------------------- letter case
\* one fingerprint written in lower case and in upper case
CaseHashes == {H1, H1Upper}

\* requests whose hash is the same fingerprint in either letter case
NextCase ==
  \/ \E p \in Reqs : RegisterPayload(p, {"a.pdf"}, CaseHashes, {MaxFileSize})
  \/ \E p \in Reqs : RegisterLookup(p)
  \/ \E p \in Reqs : RegisterInsertDocument(p)
  \/ \E p \in Reqs : RegisterInsertLedger(p)
  \/ \E id \in DocIds : ConfirmUpdateLedgerFresh(id)
  \/ \E id \in DocIds : ConfirmUpdateDocument(id)
  \/ \E p \in Reqs : VerifyPayload(p, CaseHashes, {Null, "v1"})
  \/ \E p \in Reqs : VerifyLookupDocument(p)
  \/ \E p \in Reqs : VerifyInsertNotFound(p)
  \/ \E p \in Reqs : VerifyLookupLedger(p)
  \/ \E p \in Reqs : VerifyInsertHistory(p)
  \/ Tick

SpecCase == Init /\ [][NextCase]_vars

\* ------------------------------------------- get-documents, export-proofs
RECURSIVE Reverse(_)
Reverse(seq) == IF seq = <<>> THEN <<>>
                ELSE Append(Reverse(Tail(seq)), Head(seq))

\* .order("created_at", { ascending: false }); rows are inserted with
\* non-decreasing created_at, and the store's timestamps are finer than the
\* clock of the model, so newest first is the reverse of the insertion order
NewestFirst == Reverse(documents)

\* status && ["pending", "confirmed", "not_found"].includes(status)
HasStatusFilter(s) == Truthy(s) /\ s \in {"pending", "confirmed", "not_found"}

\* a selected documents row with its embedded blockchain_records(...)
SelectedRow(d) ==
  [id |-> d.id, filename |-> d.filename, file_hash |-> d.file_hash,
   file_size |-> d.file_size, uploader_address |-> d.uploader_address,
   status |-> d.status, created_at |-> d.created_at,
   blockchain_records |->
      [k \in 1..Len(RecordsByDoc(d.id)) |->
         BlockchainPayload(RecordsByDoc(d.id)[k])[1]]]

SelectRows(rows) == [i \in 1..Len(rows) |-> SelectedRow(rows[i])]

\* the rows the get-documents query matches, before .range
ListMatching(s) ==
  SelectSeq(NewestFirst, LAMBDA d : HasStatusFilter(s) => d.status = s)

\* .range(offset, offset + limit - 1)
Range(rows, offset, limit) ==
  SubSeq(rows, offset + 1,
         IF offset + limit < Len(rows) THEN offset + limit ELSE Len(rows))

\* the body get-documents answers with; with count: "exact" the store
\* refuses an offset beyond the number of matching rows (range not
\* satisfiable), which the handler throws and answers 500
ListResponse(s, limit, offset) ==
  LET matching == ListMatching(s)
      count == Len(matching)
  IN  IF offset > count
      THEN [code |-> 500, success |-> FALSE, documents |-> <<>>,
            total |-> 0, limit |-> limit, offset |-> offset, hasMore |-> FALSE]
      ELSE [code |-> 200, success |-> TRUE,
            documents |-> SelectRows(Range(matching, offset, limit)),
            total |-> count, limit |-> limit, offset |-> offset,
            hasMore |-> (offset + limit) < count]

\* a get-documents request with parameters drawn from the given sets: its
\* one store call and the answer
ListRequest(p, ss, ls, os) ==
  /\ req[p].pc = "idle"
  /\ StartOrder(p)
  /\ \E s \in ss, l \in ls, o \in os :
       Respond(p, ListResponse(s, l, o),
               [req[p] EXCEPT !.kind = "list", !.status = s,
                              !.limit = l, !.offset = o])
  /\ UNCHANGED <<documents, blockchain_records, verification_history,
                 jobs, now, form>>

\* a get-documents request
ListDocuments(p) == ListRequest(p, StatusParams, Limits, Offsets)

\* the rows the export-proofs query matches: .eq("status", "confirmed")
\* and, with a status parameter of the list, .eq("status", status) as well
ExportMatching(s) ==
  SelectSeq(NewestFirst,
            LAMBDA d : /\ d.status = "confirmed"
                       /\ HasStatusFilter(s) => d.status = s)

\* one line of the CSV output: bc = doc.blockchain_records?.[0]
CsvRow(r) ==
  LET bc == r.blockchain_records
  IN  [filename |-> r.filename, file_hash |-> r.file_hash,
       file_size |-> r.file_size,
       transaction_hash |-> IF bc = <<>> THEN NullInt ELSE bc[1].transaction_hash,
       block_number |-> IF bc = <<>> THEN NullInt ELSE bc[1].block_number,
       block_timestamp |-> IF bc = <<>> THEN NullInt ELSE bc[1].block_timestamp,
       status |-> IF bc = <<>> THEN "pending" ELSE bc[1].status,
       created_at |-> r.created_at]

\* the output of export-proofs in the given format
ExportResponse(s, format) ==
  LET rows == SelectRows(ExportMatching(s))
  IN  [code |-> 200, success |-> TRUE, format |-> format,
       documents |-> IF format = "csv"
                     THEN [i \in 1..Len(rows) |-> CsvRow(rows[i])]
                     ELSE rows,
       ids |-> [i \in 1..Len(rows) |-> rows[i].id]]

\* an export-proofs request: its one store call and the answer
ExportProofs(p) ==
  /\ req[p].pc = "idle"
  /\ StartOrder(p)
  /\ \E s \in StatusParams, f \in Formats :
       Respond(p, ExportResponse(s, f),
               [req[p] EXCEPT !.kind = "export", !.status = s, !.format = f])
  /\ UNCHANGED <<documents, blockchain_records, verification_history,
                 jobs, now, form>>

\* registration, confirmation and verification together with the two
\* read-only functions; Register payloads pass validation
NextRead ==
  \/ \E p \in Reqs : RegisterValid(p)
  \/ \E p \in Reqs : RegisterLookup(p)
  \/ \E p \in Reqs : RegisterInsertDocument(p)
  \/ \E p \in Reqs : RegisterInsertLedger(p)
  \/ \E id \in DocIds : ConfirmUpdateLedger(id)
  \/ \E id \in DocIds : ConfirmUpdateDocument(id)
  \/ \E p \in Reqs : VerifyValidate(p)
  \/ \E p \in Reqs : VerifyLookupDocument(p)
  \/ \E p \in Reqs : VerifyInsertNotFound(p)
  \/ \E p \in Reqs : VerifyLookupLedger(p)
  \/ \E p \in Reqs : VerifyInsertHistory(p)
  \/ \E p \in Reqs : ListDocuments(p)
  \/ \E p \in Reqs : ExportProofs(p)
  \/ Tick

SpecRead == Init /\ [][NextRead]_vars

\* ------------------------------------------------------------ paging
\* get-documents over a store left by earlier registrations, some of them
\* confirmed, read by a fresh instance of the function (no timers)
PageHashes == <<H1, H2, H1Upper>>
PageLimits == {1, 2, DefaultLimit}
PageOffsets == 0..(Len(PageHashes) + 1)

InitPage ==
  \E n \in 0..Len(PageHashes) :
    \E st \in [1..n -> {"pending", "confirmed"}] :
      /\ documents =
            [i \in 1..n |->
               [id |-> i, filename |-> "a.pdf", file_hash |-> PageHashes[i],
                file_size |-> MaxFileSize, uploader_address |-> "u1",
                status |-> st[i], created_at |-> 0]]
      /\ blockchain_records =
            [i \in 1..n |->
               [document_id |-> i, document_hash |-> PageHashes[i],
                owner_address |-> "u1",
                transaction_hash |-> IF st[i] = "confirmed" THEN i ELSE NullInt,
                block_number |-> IF st[i] = "confirmed" THEN DelaySec ELSE NullInt,
                block_timestamp |-> IF st[i] = "confirmed" THEN DelaySec ELSE NullInt,
                status |-> st[i]]]
      /\ verification_history = <<>>
      /\ req = [p \in Reqs |-> IdleReq]
      /\ jobs = [d \in DocIds |-> NoJob]
      /\ now = MaxClock
      /\ form = InitForm

NextPage == \E p \in Reqs : ListRequest(p, StatusParams, PageLimits, PageOffsets)

SpecPage == InitPage /\ [][NextPage]_vars

\* ------------------------------------------------------- store failures
\* A store call that fails resolves to {data: null, error}; the client does
\* not throw. Each action below is the handler step of the same name with
\* that result. req[p].failed records that a lookup or an insert of the
\* request failed.

\* the duplicate lookup fails: existingDoc.data is null, error is not read
RegisterLookupError(p) ==
  /\ req[p].kind = "register" /\ req[p].pc = "lookup"
  /\ req' = [req EXCEPT ![p].pc = "insertDoc", ![p].failed = TRUE]
  /\ UNCHANGED <<documents, blockchain_records, verification_history,
                 jobs, now, form>>

\* the documents insert fails: error is thrown and answered 500
RegisterInsertDocumentError(p) ==
  /\ req[p].kind = "register" /\ req[p].pc = "insertDoc"
  /\ Respond(p, Response(500, FALSE, Null, "internal", NoId, <<>>, <<>>),
             [req[p] EXCEPT !.failed = TRUE])
  /\ UNCHANGED <<documents, blockchain_records, verification_history,
                 jobs, now, form>>

\* the blockchain_records insert fails: error is not read, setTimeout and
\* the 201 answer follow
RegisterInsertLedgerError(p) ==
  /\ req[p].kind = "register" /\ req[p].pc = "insertLedger"
  /\ jobs' = [jobs EXCEPT ![req[p].data_id] =
                 [pc |-> "scheduled", due |-> now + DelaySec, runs |-> 0]]
  /\ Respond(p, Response(201, TRUE, Null, Null, req[p].data_id, <<>>, <<>>),
             [req[p] EXCEPT !.failed = TRUE])
  /\ UNCHANGED <<documents, blockchain_records, verification_history,
                 now, form>>

\* the callback's update of blockchain_records fails; its result is not read
ConfirmUpdateLedgerError(id) ==
  /\ jobs[id].pc = "scheduled"
  /\ (now >= jobs[id].due \/ now = MaxClock)
  /\ jobs' = [jobs EXCEPT ![id].pc = "updateDoc"]
  /\ UNCHANGED <<documents, blockchain_records, verification_history,
                 req, now, form>>

\* the callback's update of documents fails; its result is not read
ConfirmUpdateDocumentError(id) ==
  /\ jobs[id].pc = "updateDoc"
  /\ jobs' = [jobs EXCEPT ![id].pc = "done", ![id].runs = @ + 1]
  /\ UNCHANGED <<documents, blockchain_records, verification_history,
                 req, now, form>>

\* the document lookup fails: document is null, error is not read
VerifyLookupDocumentError(p) ==
  /\ req[p].kind = "verify" /\ req[p].pc = "lookupDoc"
  /\ LET r1 == [req[p] EXCEPT !.failed = TRUE]
     IN  IF ShouldAudit(req[p].verifier_address)
         THEN req' = [req EXCEPT ![p] = [r1 EXCEPT !.pc = "insertNotFound"]]
         ELSE Respond(p, NotFoundResponse, r1)
  /\ UNCHANGED <<documents, blockchain_records, verification_history,
                 jobs, now, form>>

\* the ledger lookup fails: blockchainRecord is null, error is not read
VerifyLookupLedgerError(p) ==
  /\ req[p].kind = "verify" /\ req[p].pc = "lookupLedger"
  /\ Respond(p, Response(200, TRUE, "not_found", Null, NoId,
                         DocumentPayload(req[p].document[1]), <<>>),
             [req[p] EXCEPT !.failed = TRUE])
  /\ UNCHANGED <<documents, blockchain_records, verification_history,
                 jobs, now, form>>

\* the handlers and the callback with store calls that may fail
NextFault ==
  \/ Next
  \/ \E p \in Reqs : RegisterLookupError(p)
  \/ \E p \in Reqs : RegisterInsertDocumentError(p)
  \/ \E p \in Reqs : RegisterInsertLedgerError(p)
  \/ \E id \in DocIds : ConfirmUpdateLedgerError(id)
  \/ \E id \in DocIds : ConfirmUpdateDocumentError(id)
  \/ \E p \in Reqs : VerifyLookupDocumentError(p)
  \/ \E p \in Reqs : VerifyLookupLedgerError(p)

SpecFault == Init /\ [][NextFault]_vars

\* ------------------------------------------------- row level security
\* The policies of the migration for a client that addresses the tables
\* directly. Policies without TO hold for every role; the policies of one
\* command are alternatives; a command without policy is denied.
\* "Anyone can read confirmed documents", "Users can read their own documents"
CanSelectDocument(role, uid, d) ==
  \/ d.status = "confirmed"
  \/ /\ role = "authenticated"
     /\ (uid = d.uploader_address \/ d.status = "confirmed")

\* "Anyone can read blockchain records": USING (true)
CanSelectLedger(role, b) == TRUE

\* "Anyone can read verification history": USING (true)
CanSelectHistory(role, r) == TRUE

\* the three INSERT policies: TO authenticated WITH CHECK (true)
CanInsert(role) == role = "authenticated"

\* the hashes a client of the role can read from the three tables
ReadableHashes(role, uid) ==
  {documents[i].file_hash :
      i \in {j \in 1..Len(documents) : CanSelectDocument(role, uid, documents[j])}}
  \cup {blockchain_records[k].document_hash :
      k \in {j \in 1..Len(blockchain_records) :
                CanSelectLedger(role, blockchain_records[j])}}
  \cup {verification_history[k].verified_hash :
      k \in {j \in 1..Len(verification_history) :
                CanSelectHistory(role, verification_history[j])}}

\* ------------------------------------------------------------- the forms
\* DocumentUpload and DocumentVerify. A file can be chosen at any time (the
\* drop zone is never disabled); every computeSHA256 promise settles on its
\* own, in any order.
Backend == <<documents, blockchain_records, verification_history, req, jobs, now>>

\* DocumentUpload.handleFileSelect up to its await
UploadFileSelect(f) ==
  LET u == form.upload IN
  /\ u.selects < MaxSelect
  /\ u.status # "success"
  /\ form' =
       IF f.size > MaxFileSize
       THEN [form EXCEPT !.upload.status = "error",
                         !.upload.selects = u.selects + 1]
       ELSE [form EXCEPT !.upload.file = f,
                         !.upload.hash = EmptyStr,
                         !.upload.status = "computing",
                         !.upload.computing[f.name] = u.computing[f.name] + 1,
                         !.upload.selects = u.selects + 1]
  /\ UNCHANGED Backend

\* DocumentUpload.handleFileSelect after its await: setHash(computedHash)
UploadHashComputed(f) ==
  /\ form.upload.computing[f.name] > 0
  /\ form' = [form EXCEPT !.upload.hash = computeSHA256(f),
                          !.upload.computing[f.name] =
                             form.upload.computing[f.name] - 1]
  /\ UNCHANGED Backend

\* DocumentUpload.handleRegister up to its await
HandleRegister ==
  LET u == form.upload IN
  /\ u.status # "success"
  /\ ~u.loading
  /\ u.file # NoFile /\ u.hash # EmptyStr
  /\ form' = [form EXCEPT !.upload.loading = TRUE,
                          !.upload.status = "registering",
                          !.upload.inflight = TRUE,
                          !.upload.sent =
                             [filename |-> u.file.name,
                              file_hash |-> u.hash,
                              file_size |-> u.file.size,
                              uploader_address |-> ZeroAddress]]
  /\ UNCHANGED Backend

\* DocumentUpload.handleRegister after its await, registerDocument resolved
RegisterResolved ==
  /\ form.upload.inflight
  /\ form' = [form EXCEPT !.upload.inflight = FALSE,
                          !.upload.status = "success",
                          !.upload.timer = TRUE]
  /\ UNCHANGED Backend

\* DocumentUpload.handleRegister after its await, registerDocument rejected
RegisterRejected ==
  /\ form.upload.inflight
  /\ form' = [form EXCEPT !.upload.inflight = FALSE,
                          !.upload.status = "error",
                          !.upload.loading = FALSE]
  /\ UNCHANGED Backend

\* DocumentUpload.resetForm, from the timer of handleRegister or from the
\* Clear button
ResetForm ==
  LET u == form.upload IN
  /\ \/ u.timer
     \/ u.status # "success" /\ u.file # NoFile /\ ~u.loading
  /\ form' = [form EXCEPT !.upload.file = NoFile,
                          !.upload.hash = EmptyStr,
                          !.upload.status = "idle",
                          !.upload.timer = FALSE]
  /\ UNCHANGED Backend

\* DocumentVerify.handleFileSelect up to its await
VerifyFileSelect(f) ==
  LET v == form.verify IN
  /\ v.selects < MaxSelect
  /\ form' =
       IF f.size > MaxFileSize
       THEN [form EXCEPT !.verify.selects = v.selects + 1]
       ELSE [form EXCEPT !.verify.file = f,
                         !.verify.hash = EmptyStr,
                         !.verify.computing[f.name] = v.computing[f.name] + 1,
                         !.verify.selects = v.selects + 1]
  /\ UNCHANGED Backend

\* DocumentVerify.handleFileSelect after its await: setHash(computedHash)
VerifyHashComputed(f) ==
  /\ form.verify.computing[f.name] > 0
  /\ form' = [form EXCEPT !.verify.hash = computeSHA256(f),
                          !.verify.computing[f.name] =
                             form.verify.computing[f.name] - 1]
  /\ UNCHANGED Backend

\* DocumentVerify.handleVerify up to its await
HandleVerify ==
  LET v == form.verify IN
  /\ ~v.loading
  /\ v.file # NoFile /\ v.hash # EmptyStr
  /\ form' = [form EXCEPT !.verify.loading = TRUE,
                          !.verify.sent =
                             [file_hash |-> v.hash,
                              verifier_address |-> ZeroAddress]]
  /\ UNCHANGED Backend

\* DocumentVerify.handleVerify after its await (finally: setLoading(false))
VerifyReturned ==
  /\ form.verify.loading
  /\ form' = [form EXCEPT !.verify.loading = FALSE]
  /\ UNCHANGED Backend

NextForm ==
  \/ \E f \in Files : UploadFileSelect(f)
  \/ \E f \in Files : UploadHashComputed(f)
  \/ HandleRegister
  \/ RegisterResolved
  \/ RegisterRejected
  \/ ResetForm
  \/ \E f \in Files : VerifyFileSelect(f)
  \/ \E f \in Files : VerifyHashComputed(f)
  \/ HandleVerify
  \/ VerifyReturned

SpecForm == Init /\ [][NextForm]_vars

TypeOK ==
  /\ now \in 0..MaxClock
  /\ Len(documents) <= NumReq
  /\ \A p \in Reqs : req[p].pc \in {"idle", "lookup", "insertDoc", "insertLedger",
        "lookupDoc", "insertNotFound", "lookupLedger", "insertHistory", "done"}

\* ============================================================= properties
Done(p) == req[p].pc = "done"
IsRegister(p) == req[p].kind = "register"
IsVerify(p) == req[p].kind = "verify"
Resp(p) == req[p].response[1]

\* the payload passes the field, format and size checks of Register
ValidPayload(p) ==
  /\ req[p].filename # "" /\ req[p].file_size # 0
  /\ IsSha256Hex(req[p].file_hash)
  /\ req[p].file_size <= MaxFileSize

LedgerByHash(h) == SelectSeq(blockchain_records, LAMBDA b : b.document_hash = h)

\* C1: in every reachable state no two rows of documents have the same
\* file_hash.
C1_HashUnique ==
  \A i, j \in 1..Len(documents) :
     i # j => documents[i].file_hash # documents[j].file_hash

\* two registrations of one hash both reached the insert; the store refused
\* the second
C1_Witness ==
  \E p, q \in Reqs :
     /\ p # q /\ IsRegister(p) /\ IsRegister(q)
     /\ req[p].file_hash = req[q].file_hash
     /\ Done(p) /\ Resp(p).code = 201
     /\ Done(q) /\ Resp(q).code = 500
     /\ Len(DocsByHash(req[p].file_hash)) = 1

\* neither request started after the other had been answered 201
Concurrent(p, q) ==
  /\ ~req[p].startedAfter
  /\ ~req[q].startedAfter

\* C2: of two concurrent Register requests with the same valid hash, one is
\* answered with success and the other with the 409 conflict, and the store
\* holds exactly one Document for the hash.
C2_ConcurrentLoserGetsConflict ==
  \A p, q \in Reqs :
     ( /\ p # q /\ IsRegister(p) /\ IsRegister(q)
       /\ req[p].file_hash = req[q].file_hash
       /\ ValidPayload(p) /\ ValidPayload(q)
       /\ Concurrent(p, q)
       /\ Done(p) /\ Done(q) )
     => /\ {Resp(p).code, Resp(q).code} = {201, 409}
        /\ Len(DocsByHash(req[p].file_hash)) = 1

\* C3: a Register request (passing the field, format and size checks) that
\* starts after a Register of the same hash was answered with success is
\* answered 409 with the existing document's id, inserts no Document, and
\* the store keeps one Document and one LedgerEntry for the hash.
C3_SecondRegisterConflicts ==
  \A p \in Reqs :
     ( /\ IsRegister(p) /\ ValidPayload(p)
       /\ req[p].startedAfter )
     => /\ req[p].data_id = NoId
        /\ req[p].pc \in {"lookup", "done"}
        /\ Len(DocsByHash(req[p].file_hash)) = 1
        /\ Len(LedgerByHash(req[p].file_hash)) = 1
        /\ Done(p) => /\ Resp(p).code = 409
                      /\ Resp(p).error = "conflict"
                      /\ ~Resp(p).success
                      /\ Resp(p).document_id = DocsByHash(req[p].file_hash)[1].id

\* the second Register was answered while the first document was confirmed
C3_Witness ==
  \E p \in Reqs :
     /\ IsRegister(p) /\ ValidPayload(p) /\ Done(p)
     /\ req[p].startedAfter
     /\ Resp(p).status = "confirmed"

\* C4: in every reachable state every Document has a LedgerEntry and every
\* LedgerEntry has its Document.
C4_DocumentAndLedgerTogether ==
  /\ \A i \in 1..Len(documents) : RecordsByDoc(documents[i].id) # <<>>
  /\ \A k \in 1..Len(blockchain_records) :
        \E i \in 1..Len(documents) :
           documents[i].id = blockchain_records[k].document_id

\* C5: the Document status and the LedgerEntry status read by one Verify
\* request are equal.
C5_ReaderSeesConsistentPair ==
  \A p \in Reqs :
     (IsVerify(p) /\ req[p].document # <<>> /\ req[p].blockchainRecord # <<>>)
     => req[p].document[1].status = req[p].blockchainRecord[1].status

\* C6: a Verify that finds the Document and reads a pending LedgerEntry
\* answers not_found with the document metadata and no blockchain payload.
C6_PendingLedgerIsNotFound ==
  \A p \in Reqs :
     ( /\ IsVerify(p) /\ Done(p)
       /\ req[p].blockchainRecord # <<>>
       /\ req[p].blockchainRecord[1].status = "pending" )
     => /\ Resp(p).status = "not_found"
        /\ Resp(p).document = DocumentPayload(req[p].document[1])
        /\ Resp(p).blockchain = <<>>

\* C7: a Verify for a hash whose LedgerEntry was confirmed when the request
\* arrived answers verified, with the document metadata and a blockchain
\* payload whose transaction id, block number, owner and block timestamp
\* are set and whose status is confirmed.
C7_ConfirmedIsVerified ==
  \A p \in Reqs :
     (IsVerify(p) /\ Done(p) /\ req[p].confirmedAtStart)
     => /\ Resp(p).code = 200 /\ Resp(p).success
        /\ Resp(p).status = "verified"
        /\ Resp(p).document = DocumentPayload(DocsByHash(req[p].file_hash)[1])
        /\ Resp(p).blockchain # <<>>
        /\ Resp(p).blockchain[1].transaction_hash \in TxHashes
        /\ Resp(p).blockchain[1].block_number # NullInt
        /\ Resp(p).blockchain[1].block_timestamp # NullInt
        /\ Resp(p).blockchain[1].owner_address
              = DocsByHash(req[p].file_hash)[1].uploader_address
        /\ Resp(p).blockchain[1].status = "confirmed"

C7_Witness ==
  \E p \in Reqs :
     /\ IsVerify(p) /\ Done(p)
     /\ req[p].confirmedAtStart

\* the verification_history rows a request's not_found answer accounts for
NotFoundRows(p) ==
  SelectSeq(verification_history,
            LAMBDA r : /\ r.verified_hash = req[p].file_hash
                       /\ r.verifier_address = req[p].verifier_address
                       /\ r.document_id = NoId
                       /\ r.status = "not_found")

\* C8: a Verify for a non-empty hash with no Document in the store answers
\* not_found without document or blockchain payload, and has appended a
\* VerificationRecord (no document reference, outcome not_found) exactly
\* when a verifier identity was supplied.
C8_UnknownHashNotFound ==
  \A p \in Reqs :
     ( /\ IsVerify(p) /\ Done(p) /\ ~Falsy(req[p].file_hash)
       /\ DocsByHash(req[p].file_hash) = <<>> )
     => /\ Resp(p).code = 200 /\ Resp(p).success
        /\ Resp(p).status = "not_found"
        /\ Resp(p).document = <<>> /\ Resp(p).blockchain = <<>>
        /\ req[p].appended = (IF Truthy(req[p].verifier_address) THEN 1 ELSE 0)
        /\ Truthy(req[p].verifier_address) => NotFoundRows(p) # <<>>
        /\ ~Truthy(req[p].verifier_address) =>
              \A i \in 1..Len(verification_history) :
                 verification_history[i].verifier_address
                    # req[p].verifier_address

\* an identified and an anonymous Verify of unknown hashes were both answered
C8_Witness ==
  \E p, q \in Reqs :
     /\ IsVerify(p) /\ Done(p) /\ IsVerify(q) /\ Done(q)
     /\ DocsByHash(req[p].file_hash) = <<>> /\ ~Falsy(req[p].file_hash)
     /\ DocsByHash(req[q].file_hash) = <<>> /\ ~Falsy(req[q].file_hash)
     /\ Truthy(req[p].verifier_address) /\ ~Truthy(req[q].verifier_address)
     /\ Len(verification_history) = 1

\* C9: no step of a Verify request without verifier identity changes
\* verification_history.
C9_AnonymousNeverLogged ==
  [][\A p \in Reqs :
       ( /\ req'[p] # req[p]
         /\ req'[p].kind = "verify"
         /\ ~Truthy(req'[p].verifier_address) )
       => verification_history' = verification_history]_vars

\* an anonymous Verify of a confirmed document was answered verified
C9_Witness ==
  \E p \in Reqs :
     /\ IsVerify(p) /\ Done(p) /\ ~Truthy(req[p].verifier_address)
     /\ Resp(p).status = "verified"
     /\ Resp(p).blockchain[1].status = "confirmed"
     /\ verification_history = <<>>

\* C10: a Verify that finds the Document and reads no LedgerEntry or a
\* pending one appends no VerificationRecord.
C10_UnconfirmedNotLogged ==
  \A p \in Reqs :
     ( /\ IsVerify(p) /\ Done(p) /\ req[p].document # <<>>
       /\ \/ req[p].blockchainRecord = <<>>
          \/ req[p].blockchainRecord[1].status = "pending" )
     => req[p].appended = 0

\* C11: with a document row and its confirmed ledger entry, the outcome of
\* Verify is verified when the submitted hash equals the stored hash and
\* tampered when it differs; the response and the history row agree.
C11_ClassifiesByComparison ==
  \A p \in Reqs :
     ( /\ IsVerify(p)
       /\ req[p].document # <<>> /\ req[p].blockchainRecord # <<>>
       /\ req[p].blockchainRecord[1].status = "confirmed" )
     => LET equal == req[p].document[1].file_hash = req[p].file_hash
            outcome == IF equal THEN "verified" ELSE "tampered"
        IN  /\ Done(p) => /\ Resp(p).status = outcome
                          /\ Resp(p).success /\ Resp(p).code = 200
            /\ (Done(p) /\ req[p].appended = 1)
                  => verification_history[Len(verification_history)].status
                        = outcome

\* a hash differing from the stored one only in letter case was answered
\* tampered and logged as tampered
C11_Witness ==
  /\ Done(1) /\ IsVerify(1)
  /\ req[1].blockchainRecord # <<>>
  /\ req[1].document[1].file_hash = H1Upper /\ req[1].file_hash = H1
  /\ Resp(1).status = "tampered"
  /\ req[1].appended = 1
  /\ verification_history[1].status = "tampered"

\* the document and its ledger entry are confirmed, with transaction id, and
\* a block number not before the registration
Confirmed(id) ==
  /\ \E i \in 1..Len(documents) :
        /\ documents[i].id = id /\ documents[i].status = "confirmed"
        /\ \E k \in 1..Len(blockchain_records) :
              /\ blockchain_records[k].document_id = id
              /\ blockchain_records[k].status = "confirmed"
              /\ blockchain_records[k].transaction_hash \in TxHashes
              /\ blockchain_records[k].block_number >= documents[i].created_at

C13_RerunKeepsConfirmation ==
  [][\A k \in 1..Len(blockchain_records) :
       blockchain_records[k].status = "confirmed"
       => /\ blockchain_records'[k].transaction_hash
                = blockchain_records[k].transaction_hash
          /\ blockchain_records'[k].block_number
                = blockchain_records[k].block_number
          /\ blockchain_records'[k].block_timestamp
                = blockchain_records[k].block_timestamp]_vars

\* C14: no step takes a Document or a LedgerEntry out of confirmed, and
\* every change of a status is from pending to confirmed.
C14_StatusMonotone ==
  [][/\ \A i \in 1..Len(documents) :
          /\ documents[i].status = "confirmed"
                => documents'[i].status = "confirmed"
          /\ documents'[i].status # documents[i].status
                => /\ documents[i].status = "pending"
                   /\ documents'[i].status = "confirmed"
     /\ \A k \in 1..Len(blockchain_records) :
          /\ blockchain_records[k].status = "confirmed"
                => blockchain_records'[k].status = "confirmed"
          /\ blockchain_records'[k].status # blockchain_records[k].status
                => /\ blockchain_records[k].status = "pending"
                   /\ blockchain_records'[k].status = "confirmed"]_vars

\* a confirmed document has been read by a Verify after its confirmation
C14_Witness ==
  /\ \E i \in 1..Len(documents) : documents[i].status = "confirmed"
  /\ \E k \in 1..Len(blockchain_records) :
        blockchain_records[k].status = "confirmed"
  /\ \E p \in Reqs : IsVerify(p) /\ Done(p) /\ req[p].confirmedAtStart

\* C15: no step changes a transaction id that is set.
C15_TransactionIdImmutable ==
  [][\A k \in 1..Len(blockchain_records) :
       blockchain_records[k].transaction_hash # NullInt
       => /\ k <= Len(blockchain_records')
          /\ blockchain_records'[k].transaction_hash
                = blockchain_records[k].transaction_hash]_vars

\* a second callback updated its entry while the first entry held its id
C15_Witness ==
  /\ Len(blockchain_records) = 2
  /\ blockchain_records[1].transaction_hash # NullInt
  /\ blockchain_records[2].transaction_hash # NullInt
  /\ \A id \in 1..2 : jobs[id].pc = "done"

\* C16: no two LedgerEntries hold the same non-null transaction id.
C16_TransactionIdUnique ==
  \A i, k \in 1..Len(blockchain_records) :
     ( /\ i # k
       /\ blockchain_records[i].transaction_hash # NullInt )
     => blockchain_records[i].transaction_hash
           # blockchain_records[k].transaction_hash

\* a callback drew the id another entry holds and the store refused it
C16_Witness ==
  \E i, k \in 1..Len(blockchain_records) :
     /\ i # k
     /\ blockchain_records[i].transaction_hash # NullInt
     /\ blockchain_records[k].transaction_hash = NullInt
     /\ jobs[blockchain_records[k].document_id].pc \in {"updateDoc", "done"}

\* C17: a Verify whose hash is empty or absent is answered with an error
\* (400, success false) and no row of verification_history comes from it,
\* with or without verifier identity.
C17_EmptyHashRejected ==
  /\ \A p \in Reqs :
        (IsVerify(p) /\ Falsy(req[p].file_hash))
        => /\ Done(p)
           /\ Resp(p).code = 400 /\ ~Resp(p).success
           /\ Resp(p).error = "required"
           /\ Resp(p).document = <<>> /\ Resp(p).blockchain = <<>>
           /\ req[p].appended = 0
  /\ \A i \in 1..Len(verification_history) :
        ~Falsy(verification_history[i].verified_hash)

\* Verify requests with empty and with absent hash, verifier supplied
C17_Witness ==
  \E p, q \in Reqs :
     /\ IsVerify(p) /\ Done(p) /\ req[p].file_hash = EmptyStr
     /\ IsVerify(q) /\ Done(q) /\ req[q].file_hash = Undefined
     /\ Truthy(req[p].verifier_address) /\ Truthy(req[q].verifier_address)

\* the hexadecimal digits, in both letter cases
HexDigits ==
  {48, 49, 50, 51, 52, 53, 54, 55, 56, 57,
   65, 66, 67, 68, 69, 70, 97, 98, 99, 100, 101, 102}

\* the text has exactly 64 characters, all of them hexadecimal digits
WellFormedHash(h) ==
  /\ StrLen(h) = 64
  /\ \A i \in 1..Len(h) : h[i].c \in HexDigits

\* C18: Register passes the format check exactly for the hashes of 64
\* hexadecimal characters in either letter case; every other non-empty hash
\* gets the format error.
C18_HashFormat ==
  \A p \in Reqs :
     (IsRegister(p) /\ req[p].filename # "" /\ req[p].file_size # 0
        /\ ~Falsy(req[p].file_hash))
     => IF WellFormedHash(req[p].file_hash)
        THEN Done(p) => Resp(p).error # "format"
        ELSE /\ Done(p) /\ Resp(p).code = 400 /\ Resp(p).error = "format"
             /\ ~Resp(p).success

\* a mixed-case hash of 64 hexadecimal characters has passed the check
C18_Witness ==
  /\ IsRegister(1)
  /\ req[1].file_hash = Rep(65, 1) \o Rep(102, 63)
  /\ req[1].pc = "lookup"

\* C19: a Register whose size exceeds 104857600 is rejected and has inserted
\* no Document, whatever its hash; a size of exactly 104857600 is never
\* answered with the size error.
C19_SizeLimit ==
  \A p \in Reqs :
     IsRegister(p) =>
        /\ req[p].file_size > 104857600
              => /\ Done(p) /\ Resp(p).code = 400 /\ ~Resp(p).success
                 /\ req[p].data_id = NoId
                 /\ \A i \in 1..Len(documents) :
                       documents[i].file_size <= 104857600
        /\ (req[p].file_size = 104857600 /\ Done(p))
              => Resp(p).error # "size"

\* an oversized request with a valid hash was rejected for size and a
\* request of exactly the maximum was registered
C19_Witness ==
  \E p, q \in Reqs :
     /\ IsRegister(p) /\ Done(p) /\ req[p].file_size = MaxFileSize + 1
     /\ req[p].file_hash \in ValidHashes /\ Resp(p).error = "size"
     /\ IsRegister(q) /\ Done(q) /\ req[q].file_size = MaxFileSize
     /\ Resp(q).code = 201

\* the checks of a Register payload that fail
FailsMissing(p) ==
  req[p].filename = "" \/ Falsy(req[p].file_hash) \/ req[p].file_size = 0
FailsFormat(p) == ~WellFormedHash(req[p].file_hash)
FailsSize(p) == req[p].file_size > 104857600

\* C20: a rejected Register reports the first failing check in the order
\* missing field, hash format, size limit, duplicate hash.
C20_FirstFailingCheck ==
  \A p \in Reqs :
     (IsRegister(p) /\ Done(p)) =>
        IF FailsMissing(p) THEN Resp(p).error = "missing"
        ELSE IF FailsFormat(p) THEN Resp(p).error = "format"
        ELSE IF FailsSize(p) THEN Resp(p).error = "size"
        ELSE IF req[p].startedAfter THEN Resp(p).error = "conflict"
        ELSE Resp(p).error \in {"conflict", "internal", Null}

\* an oversized request for a registered hash got the size error
C20_Witness ==
  \E p \in Reqs :
     /\ IsRegister(p) /\ Done(p) /\ FailsSize(p)
     /\ req[p].startedAfter /\ Resp(p).error = "size"

\* C21: a Register answered with a validation error or with the conflict
\* error has changed nothing: none of its steps adds or modifies a Document,
\* a LedgerEntry or a VerificationRecord or schedules a callback.
C21_RejectedRegisterChangesNothing ==
  [][\A p \in Reqs :
       ( /\ req'[p] # req[p]
         /\ req'[p].kind = "register"
         /\ \/ req'[p].pc = "lookup"
            \/ /\ req'[p].pc = "done"
               /\ req'[p].response[1].code \in {400, 409} )
       => /\ req'[p].data_id = NoId
          /\ documents' = documents
          /\ blockchain_records' = blockchain_records
          /\ verification_history' = verification_history
          /\ jobs' = jobs]_vars

\* a Register was answered 409 for a confirmed document and the store holds
\* that document and its entry alone
C21_Witness ==
  \E p \in Reqs :
     /\ IsRegister(p) /\ Done(p) /\ Resp(p).code = 409
     /\ Resp(p).status = "confirmed"
     /\ Len(documents) = 1 /\ documents[1].status = "confirmed"
     /\ Len(blockchain_records) = 1
     /\ verification_history = <<>>

\* the documents row with the given id
DocsById(id) == SelectSeq(documents, LAMBDA d : d.id = id)

\* no other Register request carries the hash of request p
OnlyRegisterOfHash(p) ==
  \A r \in Reqs \ {p} : IsRegister(r) => req[r].file_hash # req[p].file_hash

\* C22: two Register requests with distinct valid hashes (and valid
\* payloads, each hash submitted by no other Register), in either order or
\* concurrently, are both answered with success, and the store holds two
\* Documents with different ids, one per hash.
C22_DistinctHashesBothRegister ==
  \A p, q \in Reqs :
     ( /\ p # q /\ IsRegister(p) /\ IsRegister(q)
       /\ ValidPayload(p) /\ ValidPayload(q)
       /\ req[p].file_hash # req[q].file_hash
       /\ OnlyRegisterOfHash(p) /\ OnlyRegisterOfHash(q)
       /\ Done(p) /\ Done(q) )
     => /\ Resp(p).code = 201 /\ Resp(p).success
        /\ Resp(q).code = 201 /\ Resp(q).success
        /\ Resp(p).document_id # Resp(q).document_id
        /\ Len(DocsById(Resp(p).document_id)) = 1
        /\ DocsById(Resp(p).document_id)[1].file_hash = req[p].file_hash
        /\ Len(DocsById(Resp(q).document_id)) = 1
        /\ DocsById(Resp(q).document_id)[1].file_hash = req[q].file_hash

\* both hashes are registered, the second document inserted before the
\* first request was answered
C22_Witness ==
  \E p, q \in Reqs :
     /\ IsRegister(p) /\ IsRegister(q)
     /\ req[p].file_hash = H1 /\ req[q].file_hash = H2
     /\ Done(p) /\ Done(q)
     /\ Resp(p).document_id = 2 /\ Resp(q).document_id = 1

C24_NotFoundIsSuccess ==
  \A p \in Reqs :
     (IsVerify(p) /\ Done(p) /\ Resp(p).status = "not_found")
     => Resp(p).success /\ Resp(p).code = 200

\* the blockchain_records row of the document is still pending
LedgerPending(id) ==
  \E k \in 1..Len(blockchain_records) :
     /\ blockchain_records[k].document_id = id
     /\ blockchain_records[k].status = "pending"

\* C25: when the callback's update of the LedgerEntry has not taken effect
\* (the entry is still pending after that step), the Document is not set to
\* confirmed: its status stays pending.
C25_FailedConfirmationStaysPending ==
  \A id \in DocIds :
     (jobs[id].pc \in {"updateDoc", "done"} /\ LedgerPending(id))
     => \A i \in 1..Len(documents) :
           documents[i].id = id => documents[i].status = "pending"

\* C26: a Register or Verify request one of whose store operations (duplicate
\* lookup, Document insert, LedgerEntry insert, document lookup, ledger
\* lookup) failed ends with a failure response, never with a success outcome.
C26_StoreFailureIsReported ==
  \A p \in Reqs :
     (Done(p) /\ req[p].failed)
     => /\ ~Resp(p).success
        /\ Resp(p).code = 500

\* C27: verification_history is append-only: every step of Register, the
\* callback, Verify, get-documents and export-proofs keeps the existing rows
\* as they are, and a step that adds a row is a step of a Verify request.
C27_HistoryAppendOnly ==
  [][/\ Len(verification_history') >= Len(verification_history)
     /\ SubSeq(verification_history', 1, Len(verification_history))
           = verification_history
     /\ verification_history' # verification_history
           => \E p \in Reqs : /\ req'[p] # req[p]
                               /\ req'[p].kind = "verify"]_vars

\* two identified Verify requests for two unknown hashes have each appended
\* their record
C27_Witness ==
  /\ Len(verification_history) = 2
  /\ verification_history[1].verified_hash = H1
  /\ verification_history[2].verified_hash = H2
  /\ \A p \in Reqs : IsVerify(p) /\ Done(p)

\* C28: no step of a Verify, get-documents or export-proofs request changes
\* a row of documents or of blockchain_records.
C28_ReadersLeaveStoreAlone ==
  [][\A p \in Reqs :
       ( /\ req'[p] # req[p]
         /\ req'[p].kind \in {"verify", "list", "export"} )
       => /\ documents' = documents
          /\ blockchain_records' = blockchain_records]_vars

\* an identified Verify was answered for a document whose ledger entry is
\* confirmed while the document row is still pending
C28_Witness ==
  \E p \in Reqs :
     /\ IsVerify(p) /\ Done(p) /\ req[p].appended = 1
     /\ Resp(p).status = "verified"
     /\ Len(documents) = 1 /\ documents[1].status = "pending"
     /\ jobs[1].pc = "updateDoc"

\* ids of the documents whose status is s, newest first
IdsWithStatus(s) ==
  LET rows == SelectSeq(NewestFirst, LAMBDA d : d.status = s)
  IN  [i \in 1..Len(rows) |-> rows[i].id]

\* C29: a get-documents request (whose page covers the whole list) or an
\* export-proofs request with status = s, s one of pending, confirmed,
\* not_found, returns exactly the Documents whose status is s.
C29_StatusFilter ==
  [][\A p \in Reqs :
       ( /\ req'[p] # req[p]
         /\ req'[p].kind \in {"list", "export"}
         /\ req'[p].status \in {"pending", "confirmed", "not_found"}
         /\ req'[p].kind = "list"
               => req'[p].offset = 0 /\ req'[p].limit > Len(documents) )
       => LET docs == req'[p].response[1].documents
              returned == IF req'[p].kind = "export"
                          THEN req'[p].response[1].ids
                          ELSE [i \in 1..Len(docs) |-> docs[i].id]
          IN  /\ req'[p].response[1].success
              /\ returned = IdsWithStatus(req'[p].status)]_vars

\* C30: under the policies an unauthenticated reader reads a Document only
\* when it is confirmed, only authenticated users insert rows, and the hash
\* of a Document that is still pending is readable by an unauthenticated
\* reader through none of the three tables.
C30_PendingHiddenFromAnonymous ==
  /\ ~CanInsert("anon")
  /\ \A i \in 1..Len(documents) :
        /\ CanSelectDocument("anon", Null, documents[i])
              => documents[i].status = "confirmed"
        /\ documents[i].status = "pending"
              => documents[i].file_hash \notin ReadableHashes("anon", Null)

RECURSIVE CharAt(_, _)
\* the code point at position i of a text
CharAt(h, i) == IF i <= h[1].n THEN h[1].c ELSE CharAt(Tail(h), i - h[1].n)

\* upper case of a letter
Upper(c) == IF c \in 97..122 THEN c - 32 ELSE c

\* two hashes are the same hexadecimal number, whatever the letter case
SameFingerprint(g, h) ==
  /\ StrLen(g) = StrLen(h)
  /\ \A i \in 1..StrLen(g) : Upper(CharAt(g, i)) = Upper(CharAt(h, i))

\* a Document of the fingerprint of h is in the store
FingerprintStored(h) ==
  \E i \in 1..Len(documents) : SameFingerprint(documents[i].file_hash, h)

\* C32: hashes are compared without regard to letter case: the document
\* lookup of Verify finds a Document registered with the same fingerprint in
\* another case, the duplicate lookup of Register answers the conflict error
\* for it, and no two Documents hold the same fingerprint.
C32_CaseInsensitiveEquality ==
  [][/\ \A p \in Reqs :
          ( /\ req[p].kind = "verify" /\ req[p].pc = "lookupDoc"
            /\ req'[p].pc # "lookupDoc"
            /\ FingerprintStored(req[p].file_hash) )
          => req'[p].pc = "lookupLedger"
     /\ \A p \in Reqs :
          ( /\ req[p].kind = "register" /\ req[p].pc = "lookup"
            /\ req'[p].pc # "lookup"
            /\ FingerprintStored(req[p].file_hash) )
          => /\ req'[p].pc = "done"
             /\ req'[p].response[1].code = 409
     /\ \A i, j \in 1..Len(documents') :
          i # j => ~SameFingerprint(documents'[i].file_hash,
                                    documents'[j].file_hash)]_vars

\* C33: after every step each LedgerEntry references an existing Document
\* whose hash and uploader are the entry's recorded hash and owner, no
\* Document has two LedgerEntries, and no step (the callback included)
\* changes the document reference, recorded hash or owner of an entry.
C33_LedgerMatchesDocument ==
  [][/\ \A k \in 1..Len(blockchain_records') :
          \E i \in 1..Len(documents') :
             /\ documents'[i].id = blockchain_records'[k].document_id
             /\ documents'[i].file_hash = blockchain_records'[k].document_hash
             /\ documents'[i].uploader_address
                   = blockchain_records'[k].owner_address
     /\ \A k, l \in 1..Len(blockchain_records') :
          k # l => blockchain_records'[k].document_id
                      # blockchain_records'[l].document_id
     /\ \A k \in 1..Len(blockchain_records) :
          /\ k <= Len(blockchain_records')
          /\ blockchain_records'[k].document_id
                = blockchain_records[k].document_id
          /\ blockchain_records'[k].document_hash
                = blockchain_records[k].document_hash
          /\ blockchain_records'[k].owner_address
                = blockchain_records[k].owner_address]_vars

\* the callback has confirmed the entry of one document while the entry of
\* a second document, with another hash, is pending
C33_Witness ==
  /\ Len(blockchain_records) = 2
  /\ \E k, l \in 1..2 :
        /\ blockchain_records[k].status = "confirmed"
        /\ blockchain_records[l].status = "pending"
        /\ blockchain_records[k].document_hash = H1
        /\ blockchain_records[l].document_hash = H2

\* C34: in executions of Register, the callback and Verify alone, Verify
\* never answers tampered and never records tampered: the Document it
\* compares was found by the submitted hash.
C34_NeverTampered ==
  /\ \A p \in Reqs :
        /\ (IsVerify(p) /\ Done(p)) => Resp(p).status # "tampered"
        /\ (IsVerify(p) /\ req[p].document # <<>>)
              => req[p].document[1].file_hash = req[p].file_hash
  /\ \A i \in 1..Len(verification_history) :
        verification_history[i].status # "tampered"

\* an identified Verify compared the document it found and recorded verified
C34_Witness ==
  \E p \in Reqs :
     /\ IsVerify(p) /\ Done(p) /\ req[p].document # <<>>
     /\ req[p].blockchainRecord # <<>>
     /\ Resp(p).status = "verified"
     /\ req[p].appended = 1
     /\ verification_history[Len(verification_history)].status = "verified"

\* the documents a status parameter selects, newest first
MatchingDocs(s) ==
  SelectSeq(NewestFirst,
            LAMBDA d : s \in {"pending", "confirmed", "not_found"}
                          => d.status = s)

\* the ids of the documents a get-documents response returns
ReturnedIds(r) == [i \in 1..Len(r.documents) |-> r.documents[i].id]

\* C35: a get-documents request with offset >= 0 and limit >= 1 returns the
\* Documents at positions offset .. offset+limit-1 of the matching list,
\* newest first, total = the number of matching Documents and hasMore =
\* true exactly when a matching Document lies beyond the page; the page that
\* follows another (offset + limit, same filter) shares no Document with it.
C35_Pagination ==
  [][\A p \in Reqs :
       ( /\ req'[p] # req[p]
         /\ req'[p].kind = "list"
         /\ req'[p].offset >= 0 /\ req'[p].limit >= 1 )
       => LET r == req'[p].response[1]
              matching == MatchingDocs(req'[p].status)
              count == Len(matching)
              first == req'[p].offset + 1
              last == IF req'[p].offset + req'[p].limit < count
                      THEN req'[p].offset + req'[p].limit ELSE count
          IN  /\ r.success
              /\ ReturnedIds(r) = [i \in 1..(IF last >= first
                                              THEN last - first + 1 ELSE 0)
                                     |-> matching[first + i - 1].id]
              /\ Len(r.documents) <= req'[p].limit
              /\ r.total = count
              /\ r.hasMore = (count > req'[p].offset + req'[p].limit)
              /\ \A q \in Reqs \ {p} :
                    ( /\ req[q].kind = "list" /\ req[q].pc = "done"
                      /\ req[q].status = req'[p].status
                      /\ req[q].limit = req'[p].limit
                      /\ req'[p].offset = req[q].offset + req[q].limit )
                    => \A i \in 1..Len(r.documents) :
                          \A j \in 1..Len(req[q].response[1].documents) :
                             r.documents[i].id
                                # req[q].response[1].documents[j].id]_vars

\* C36: in the upload and verify forms the hash held in state is the hash of
\* the currently selected file, and the hash sent by Register or Verify is the
\* hash of the file selected when it is sent, whatever order the hash
\* computations of earlier and later selections complete in.
C36_HashBelongsToSelectedFile ==
  [][ /\ \A k \in {"upload", "verify"} :
           /\ form'[k].hash # EmptyStr
                => /\ form'[k].file # NoFile
                   /\ form'[k].hash = computeSHA256(form'[k].file)
           /\ (form'[k].loading /\ ~form[k].loading)
                => form'[k].sent.file_hash = computeSHA256(form[k].file)
      /\ (form'.upload.loading /\ ~form.upload.loading)
           => /\ form'.upload.sent.filename = form.upload.file.name
              /\ form'.upload.sent.file_size = form.upload.file.size ]_vars

====
